---- MODULE Spec2Model ----
(***************************************************************************)
(* Model of the background task registry of knowledge-refinery             *)
(* (src/utils/background_tasks.py, class BackgroundTaskManager).           *)
(*                                                                         *)
(* One script thread (the caller) executes run_task and clear_task one     *)
(* source statement at a time; every accepted run_task starts a daemon     *)
(* thread that executes task_wrapper.  The three dictionaries are shared   *)
(* between the caller and all worker threads and are not protected by any  *)
(* lock, so statements of different threads interleave freely.             *)
(***************************************************************************)
EXTENDS Naturals, FiniteSets, Sequences, Bags, TLC

(* ---------------------------- bounds ---------------------------------- *)

\* largest number of worker threads alive at the same time
MaxThreads == 2

\* the task ids the caller uses
Keys == {"transcribe_1", "correct_1"}

(* ------------------------- Python values ------------------------------ *)

\* a key that is not in a dictionary
Missing == "<missing>"

\* Python's None
None == "None"

\* the values a work function returns
ReturnVals == {None, "segments"}

\* the argument tuples of the exceptions a work function raises
ExcArgs == {<<"boom">>}

\* str(e) for an Exception built from the argument tuple args
ExcStr(args) == IF Len(args) = 0 THEN "" ELSE args[1]

\* the work functions handed to run_task: one that returns val, one that
\* raises Exception(*args), one that never comes back
Funcs ==
    {[kind |-> "return", val |-> v, args |-> <<>>] : v \in ReturnVals}
    \cup {[kind |-> "raise", val |-> None, args |-> a] : a \in ExcArgs}
    \cup {[kind |-> "hang", val |-> None, args |-> <<>>]}

NoFunc == [kind |-> "none", val |-> None, args |-> <<>>]

(* ----------------------------- state ---------------------------------- *)

VARIABLES
    background_tasks,   \* task_id -> "True" | "False" | Missing
    task_results,       \* task_id -> stored result | None | Missing
    task_errors,        \* task_id -> stored message | None | Missing
    threads,            \* bag of the live worker threads
    callerpc,           \* the statement the script thread executes next
    call                \* the call the script thread is in or has left

vars == <<background_tasks, task_results, task_errors, threads, callerpc, call>>

\* the state of the pure functions of the repository: the arguments of one
\* call and what the call gave
VARIABLES
    arg,                \* the arguments of the call
    out                 \* the outcome of the call, Pending before it

pureVars == <<arg, out>>

Pending == [kind |-> "pending"]

\* no pure function is under study
PureOff == arg = [fn |-> "none"] /\ out = Pending

\* the session of one user: st.session_state, the dictionaries it refers to,
\* and the BackgroundTaskManager instances the re-executions of the page made
VARIABLES
    session_state,      \* name -> the dictionary stored under it | NoRef
    heap,               \* the dictionaries ever created, by identity
    managers,           \* the instances in the order of their construction
    workers,            \* bag of the live threads, each with its instance
    started             \* task_id -> the instance that started it | 0

sessionVars == <<session_state, heap, managers, workers, started>>

\* the names __init__ uses in st.session_state
Names == {"background_tasks", "task_results", "task_errors"}

\* the name is not in st.session_state
NoRef == 0

\* no session is under study
SessionOff ==
    /\ session_state = [n \in Names |-> NoRef]
    /\ heap = <<>>
    /\ managers = <<>>
    /\ workers = EmptyBag
    /\ started = [k \in Keys |-> 0]

\* the page Process of one session, the file setup.yaml and the row of the
\* lesson the page works on
VARIABLES
    setup,              \* the content of setup.yaml
    audio,              \* "True" iff the audio file of the lesson exists
    session_api_key,    \* st.session_state['api_key'] after load_api_key
    lesson,             \* the row of the lesson in the database
    written,            \* column -> serial number of the run that wrote it
    pagepc,             \* the statement the script of the page executes next
    request,            \* the widget the user has acted on, and how it was
                        \* dealt with in the re-execution it caused
    transcript_type,    \* the value of the radio of the Summarize tab
    nruns               \* the number of work functions handed to run_task

pageVars == <<setup, audio, session_api_key, lesson, written, pagepc, request,
              transcript_type, nruns>>

\* the page is not open
PageOff ==
    /\ setup = "none"
    /\ audio = "False"
    /\ session_api_key = None
    /\ lesson = "none"
    /\ written = "none"
    /\ pagepc = "closed"
    /\ request = "none"
    /\ transcript_type = "none"
    /\ nruns = 0

\* the speech model of src/utils/whisper_transcriber.py: the module globals
\* that cache it, the file its settings are read from, and the threads that
\* are inside transcribe_audio, one for each lesson
VARIABLES
    config_file,        \* the content of setup.yaml
    _model,             \* the cached model object | NoModel
    _model_config,      \* the cached configuration tuple | NoModel
    transcribing,       \* lesson id -> the thread inside transcribe_audio
    ncalls,             \* the number of calls of transcribe_audio so far
    nedits              \* the number of times setup.yaml was written

whisperVars == <<config_file, _model, _model_config, transcribing, ncalls, nedits>>

\* None in _model and _model_config; a model object is written as the tuple
\* (model_size, device, compute_type) it was constructed with
NoModel == <<>>

\* the speech model is not under study
WhisperOff ==
    /\ config_file = "none"
    /\ _model = NoModel
    /\ _model_config = NoModel
    /\ transcribing = <<>>
    /\ ncalls = 0
    /\ nedits = 0

\* the variables the registry does not have
notRegistry == <<pureVars, sessionVars, pageVars, whisperVars>>

\* the variables the pure functions do not have
notPure == <<vars, sessionVars, pageVars, whisperVars>>

\* the variables the session does not have
notSession == <<vars, pureVars, pageVars, whisperVars>>

\* the variables the page neither has nor uses
notPage == <<pureVars, sessionVars, whisperVars>>

\* the variables the speech model does not have
notWhisper == <<vars, pureVars, sessionVars, pageVars>>

allVars == <<vars, pureVars, sessionVars, pageVars, whisperVars>>

RegistryOnly == PureOff /\ SessionOff /\ PageOff /\ WhisperOff

NoCall == [op |-> "none", key |-> "", func |-> NoFunc, seen |-> Missing]

\* a worker thread: the key and function of its closure and its position
\* in task_wrapper
Thread(k, f, pc) == [key |-> k, func |-> f, pc |-> pc]

Live == BagToSet(threads)

Replace(old, new) == (threads (-) SetToBag({old})) (+) SetToBag({new})

Init ==
    /\ background_tasks = [k \in Keys |-> Missing]
    /\ task_results = [k \in Keys |-> Missing]
    /\ task_errors = [k \in Keys |-> Missing]
    /\ threads = EmptyBag
    /\ callerpc = "idle"
    /\ call = NoCall

(* ------------------------- the read methods --------------------------- *)

\* background_tasks.get(task_id, False)
is_running(k) == IF background_tasks[k] = Missing THEN FALSE
                 ELSE background_tasks[k] = "True"

\* task_results.get(task_id)
get_result(k) == IF task_results[k] = Missing THEN None ELSE task_results[k]

\* task_errors.get(task_id)
get_error(k) == IF task_errors[k] = Missing THEN None ELSE task_errors[k]

is_complete(k) == IF background_tasks[k] = Missing THEN FALSE
                  ELSE background_tasks[k] # "True"

\* line 26 written as a test of completion only
Known_complete_only(k) == background_tasks[k] = "False"

\* line 26 written as self.is_running(task_id)
Known_running_only(k) == background_tasks[k] = "True"

\* the test of line 26: task_id in self.background_tasks
Known(k) == background_tasks[k] # Missing

(* ---------------------------- run_task -------------------------------- *)

AtRest == callerpc \in {"idle", "ret"}

\* the script thread enters run_task(k, f)
CallRunTask(k, f) ==
    /\ AtRest
    /\ Known(k) \/ BagCardinality(threads) < MaxThreads
    /\ callerpc' = "rt26"
    /\ call' = [op |-> "run_task", key |-> k, func |-> f, seen |-> Missing]
    /\ UNCHANGED <<background_tasks, task_results, task_errors, threads>>
    /\ UNCHANGED notRegistry

\* lines 26-28: the key is in background_tasks, return
RunTaskKnown ==
    /\ callerpc = "rt26"
    /\ Known(call.key)
    /\ callerpc' = "ret"
    /\ call' = [call EXCEPT !.func = NoFunc, !.seen = background_tasks[call.key]]
    /\ UNCHANGED <<background_tasks, task_results, task_errors, threads>>
    /\ UNCHANGED notRegistry

\* line 26: the key is not in background_tasks, go on
RunTaskNew ==
    /\ callerpc = "rt26"
    /\ ~Known(call.key)
    /\ callerpc' = "rt31"
    /\ call' = [call EXCEPT !.seen = Missing]
    /\ UNCHANGED <<background_tasks, task_results, task_errors, threads>>
    /\ UNCHANGED notRegistry

\* line 31
RunTaskMark ==
    /\ callerpc = "rt31"
    /\ background_tasks' = [background_tasks EXCEPT ![call.key] = "True"]
    /\ callerpc' = "rt32"
    /\ UNCHANGED <<task_results, task_errors, threads, call>>
    /\ UNCHANGED notRegistry

\* line 32
RunTaskResetResult ==
    /\ callerpc = "rt32"
    /\ task_results' = [task_results EXCEPT ![call.key] = None]
    /\ callerpc' = "rt33"
    /\ UNCHANGED <<background_tasks, task_errors, threads, call>>
    /\ UNCHANGED notRegistry

\* line 33
RunTaskResetError ==
    /\ callerpc = "rt33"
    /\ task_errors' = [task_errors EXCEPT ![call.key] = None]
    /\ callerpc' = "rt44"
    /\ UNCHANGED <<background_tasks, task_results, threads, call>>
    /\ UNCHANGED notRegistry

\* lines 44-45 with thread.start() left out
RunTaskStart_unstarted ==
    /\ callerpc = "rt44"
    /\ callerpc' = "ret"
    /\ call' = [call EXCEPT !.func = NoFunc]
    /\ UNCHANGED <<background_tasks, task_results, task_errors, threads>>
    /\ UNCHANGED notRegistry

\* lines 44-45: the thread starts and run_task returns
RunTaskStart ==
    /\ callerpc = "rt44"
    /\ threads' = threads (+) SetToBag({Thread(call.key, call.func, "func")})
    /\ callerpc' = "ret"
    /\ call' = [call EXCEPT !.func = NoFunc]
    /\ UNCHANGED <<background_tasks, task_results, task_errors>>
    /\ UNCHANGED notRegistry

(* --------------------------- task_wrapper ----------------------------- *)

\* line 37: func comes back, with a value or with an exception
WrapperCall(t) ==
    /\ t \in Live
    /\ t.pc = "func"
    /\ t.func.kind # "hang"
    /\ threads' = Replace(t, [t EXCEPT !.pc = "store"])
    /\ UNCHANGED <<background_tasks, task_results, task_errors, callerpc, call>>
    /\ UNCHANGED notRegistry

\* line 38: func returned, store the result
WrapperResult(t) ==
    /\ t \in Live
    /\ t.pc = "store"
    /\ t.func.kind = "return"
    /\ task_results' = [task_results EXCEPT ![t.key] = t.func.val]
    /\ threads' = Replace(t, [t EXCEPT !.pc = "finally"])
    /\ UNCHANGED <<background_tasks, task_errors, callerpc, call>>
    /\ UNCHANGED notRegistry

\* lines 39-40: func raised, store str(e)
WrapperError(t) ==
    /\ t \in Live
    /\ t.pc = "store"
    /\ t.func.kind = "raise"
    /\ task_errors' = [task_errors EXCEPT ![t.key] = ExcStr(t.func.args)]
    /\ threads' = Replace(t, [t EXCEPT !.pc = "finally"])
    /\ UNCHANGED <<background_tasks, task_results, callerpc, call>>
    /\ UNCHANGED notRegistry

\* lines 41-42: the finally clause, after which the thread ends
WrapperFinally(t) ==
    /\ t \in Live
    /\ t.pc = "finally"
    /\ background_tasks' = [background_tasks EXCEPT ![t.key] = "False"]
    /\ threads' = threads (-) SetToBag({t})
    /\ UNCHANGED <<task_results, task_errors, callerpc, call>>
    /\ UNCHANGED notRegistry

(* --------------------------- clear_task ------------------------------- *)

\* the script thread enters clear_task(k)
CallClearTask(k) ==
    /\ AtRest
    /\ callerpc' = "ct67"
    /\ call' = [op |-> "clear_task", key |-> k, func |-> NoFunc,
                seen |-> background_tasks[k]]
    /\ UNCHANGED <<background_tasks, task_results, task_errors, threads>>
    /\ UNCHANGED notRegistry

\* lines 67-68
ClearTaskFlag ==
    /\ callerpc = "ct67"
    /\ background_tasks' = [background_tasks EXCEPT ![call.key] = Missing]
    /\ callerpc' = "ct69"
    /\ UNCHANGED <<task_results, task_errors, threads, call>>
    /\ UNCHANGED notRegistry

\* lines 69-70 written as self.task_results.clear()
ClearTaskResult_clear_all ==
    /\ callerpc = "ct69"
    /\ task_results' = [k \in DOMAIN task_results |-> Missing]
    /\ callerpc' = "ct71"
    /\ UNCHANGED <<background_tasks, task_errors, threads, call>>
    /\ UNCHANGED notRegistry

\* lines 69-70
ClearTaskResult ==
    /\ callerpc = "ct69"
    /\ task_results' = [task_results EXCEPT ![call.key] = Missing]
    /\ callerpc' = "ct71"
    /\ UNCHANGED <<background_tasks, task_errors, threads, call>>
    /\ UNCHANGED notRegistry

\* lines 71-72, after which clear_task returns
ClearTaskError ==
    /\ callerpc = "ct71"
    /\ task_errors' = [task_errors EXCEPT ![call.key] = Missing]
    /\ callerpc' = "ret"
    /\ UNCHANGED <<background_tasks, task_results, threads, call>>
    /\ UNCHANGED notRegistry

(* ------------------------- specification ------------------------------ *)

ThreadStates == {Thread(k, f, pc) : k \in Keys, f \in Funcs,
                                    pc \in {"func", "store", "finally"}}

CallerStep ==
    \/ \E k \in Keys, f \in Funcs : CallRunTask(k, f)
    \/ RunTaskKnown
    \/ RunTaskNew
    \/ RunTaskMark
    \/ RunTaskResetResult
    \/ RunTaskResetError
    \/ RunTaskStart
    \/ \E k \in Keys : CallClearTask(k)
    \/ ClearTaskFlag
    \/ ClearTaskResult
    \/ ClearTaskError

WorkerStep(t) ==
    \/ WrapperCall(t)
    \/ WrapperResult(t)
    \/ WrapperError(t)
    \/ WrapperFinally(t)

Next ==
    \/ CallerStep
    \/ \E t \in ThreadStates : WorkerStep(t)

\* the state after construction, with nothing else of the program in use
RegistryInit == Init /\ RegistryOnly

Spec == RegistryInit /\ [][Next]_allVars

\* every started thread is scheduled again and again
FairSpec == Spec /\ \A t \in ThreadStates : WF_vars(WorkerStep(t))

(* --------------------------- properties ------------------------------- *)

\* the states of a key as the read methods show them
Absent(k) == ~is_running(k) /\ ~is_complete(k)
Running(k) == is_running(k)
Terminal(k) == is_complete(k)

\* the record of key k
Record(k) == <<background_tasks[k], task_results[k], task_errors[k]>>

\* the script thread executes the statement at position pc in this step
CallerAt(pc) == callerpc = pc /\ callerpc' # pc

\* the number of threads that are inside the work function of key k
Executing(k) ==
    LET S == {t \in Live : t.key = k /\ t.pc = "func"}
    IN  BagCardinality([t \in S |-> threads[t]])

\* C1 (single-flight): a run_task call that finds its key Running returns at
\* once, starts no thread and leaves the stored result and error of the key
\* as they were.
C1_SingleFlight ==
    [][(CallerAt("rt26") /\ is_running(call.key)) =>
          /\ callerpc' = "ret"
          /\ threads' = threads
          /\ task_results'[call.key] = task_results[call.key]
          /\ task_errors'[call.key] = task_errors[call.key]]_vars

\* a run_task call has returned as a no-op after it found its key Running
\* while the worker of that key is still alive
C1_Witness ==
    /\ callerpc = "ret"
    /\ call.op = "run_task"
    /\ call.seen = "True"
    /\ \E t \in Live : t.key = call.key

\* C2: in every reachable state at most one thread is inside the work
\* function of a key, also after clear_task on a Running key and a new
\* run_task.
C2_AtMostOneWorker == \A k \in Keys : Executing(k) <= 1

\* C3: a complete key has exactly one of result and error set, whatever the
\* work function returned or raised.
C3_ExactlyOneOutcome ==
    AtRest => \A k \in Keys :
        is_complete(k) => ((get_result(k) # None) # (get_error(k) # None))

\* C4: a key leaves Absent only through run_task and then is Running, leaves
\* Running only to the terminal state its worker sets (or by clear_task), and
\* a terminal record does not change until clear_task is called on the key.
C4_Monotonic ==
    [][\A k \in Keys :
          /\ (Absent(k) /\ ~Absent(k)') =>
                (Running(k)' /\ CallerAt("rt31") /\ call.key = k)
          /\ (Running(k) /\ ~Running(k)') =>
                \/ Terminal(k)' /\ \E t \in Live : t.key = k /\ WrapperFinally(t)
                \/ Absent(k)' /\ CallerAt("ct67") /\ call.key = k
          /\ (Terminal(k) /\ Record(k)' # Record(k)) =>
                (call.op = "clear_task" /\ call.key = k /\ ~AtRest)]_vars

\* C5: when clear_task(key) returns, is_running and is_complete are false
\* and get_result and get_error are empty, in whatever state the key was;
\* on a key with no entry clear_task changes nothing.
C5_ClearReturnsAbsent ==
    [][/\ CallerAt("ct71") =>
            /\ ~is_running(call.key)' /\ ~is_complete(call.key)'
            /\ get_result(call.key)' = None /\ get_error(call.key)' = None
       /\ (call.op = "clear_task" /\ ~AtRest /\ callerpc' # callerpc
             /\ Record(call.key) = <<Missing, Missing, Missing>>) =>
            Record(call.key)' = Record(call.key)]_vars

\* what run_task does on a call it accepts: it goes on to line 31, marks the
\* key Running, resets result and error, starts one thread inside the work
\* function and returns while that thread is still there
StartsWork(accepted) ==
    /\ (CallerAt("rt26") /\ accepted) => callerpc' = "rt31"
    /\ CallerAt("rt31") => (callerpc' = "rt32" /\ is_running(call.key)')
    /\ CallerAt("rt32") => callerpc' = "rt33"
    /\ CallerAt("rt33") => callerpc' = "rt44"
    /\ CallerAt("rt44") =>
          /\ callerpc' = "ret"
          /\ threads' = threads (+) SetToBag({Thread(call.key, call.func, "func")})

\* C6 as stated: for every key that is not Running at the call (Absent, or
\* terminal and not yet cleared) run_task marks the key Running, starts the
\* work function on a thread and returns without waiting.
C6_StartsUnlessRunning == [][StartsWork(~is_running(call.key))]_vars

\* C6 amended: for every key that is not in the registry at the call
\* run_task marks the key Running, starts the work function on a thread and
\* returns without waiting.
C6_StartsWhenAbsent == [][StartsWork(~Known(call.key))]_vars

\* run_task has returned from an accepted call while the work function it
\* started, one that never comes back, is still executing
C6_Witness ==
    /\ callerpc = "ret"
    /\ call.op = "run_task"
    /\ call.seen = Missing
    /\ \E t \in Live : t.key = call.key /\ t.func.kind = "hang" /\ t.pc = "func"

\* C7: a run_task call on a key that is terminal and not cleared is a no-op:
\* no thread starts and the flag, result and error of the key stay.
C7_NoRestartUntilCleared ==
    [][(CallerAt("rt26") /\ is_complete(call.key)) =>
          /\ callerpc' = "ret"
          /\ threads' = threads
          /\ Record(call.key)' = Record(call.key)]_vars

\* a run_task call has returned as a no-op after it found its key terminal,
\* and the record of the key still holds the outcome of the earlier run
C7_Witness ==
    /\ callerpc = "ret"
    /\ call.op = "run_task"
    /\ call.seen = "False"
    /\ is_complete(call.key)
    /\ get_result(call.key) # None \/ get_error(call.key) # None

\* C8: is_complete holds exactly for the keys that are in the registry and
\* not Running, is_running and is_complete never hold together, and for an
\* Absent key get_result and get_error are empty.
C8_ReadersConsistent ==
    AtRest => \A k \in Keys :
        /\ is_complete(k) <=> (Known(k) /\ ~is_running(k))
        /\ ~(is_running(k) /\ is_complete(k))
        /\ Absent(k) => (get_result(k) = None /\ get_error(k) = None)

\* C9: when the work function raises, the key becomes terminal with
\* get_error holding str(e) and get_result empty, and the script thread is
\* not touched.
C9_FailureTrapped ==
    [][\A t \in ThreadStates :
          (t.func.kind = "raise" /\ WorkerStep(t)) =>
              /\ UNCHANGED <<callerpc, call>>
              /\ WrapperFinally(t) =>
                    /\ is_complete(t.key)'
                    /\ get_error(t.key)' = ExcStr(t.func.args)
                    /\ get_result(t.key)' = None]_vars

\* the outcome of work function f is stored under key k
Stored(k, f) ==
    IF f.kind = "return" THEN task_results[k] = f.val
    ELSE task_errors[k] = ExcStr(f.args)

\* C10 (liveness): every started work function that returns or raises leads
\* to a state in which its key is complete and its outcome is stored.
C10_EventuallyComplete ==
    \A k \in Keys, f \in Funcs :
        (f.kind # "hang" /\ Thread(k, f, "func") \in Live)
            ~> (is_complete(k) /\ Stored(k, f))

\* the worker threads of key k that have not stored their outcome yet
Unstored(k) == {t \in Live : t.key = k /\ t.pc \in {"func", "store"}}

\* C21 (no torn read): whenever the script thread, between two calls, finds a
\* key complete, no worker of that key is still to store its outcome, so
\* that get_error and get_result give the final outcome of the run.
C21_NoTornRead ==
    AtRest => \A k \in Keys : is_complete(k) => Unstored(k) = {}

\* C23 (frame): a step of run_task(k) or clear_task(k) and a step of a worker
\* of k leave the flag, the result and the error of every other key as they
\* were.
C23_OtherKeysUntouched ==
    [][/\ (~AtRest /\ callerpc' # callerpc) =>
             \A j \in Keys \ {call.key} : Record(j)' = Record(j)
       /\ \A t \in ThreadStates : WorkerStep(t) =>
             \A j \in Keys \ {t.key} : Record(j)' = Record(j)]_vars

\* clear_task has returned from a key it found complete, so that run_task, a
\* worker and clear_task have all acted on that key, while the other key is
\* Running with its worker alive and its record in place
C23_Witness ==
    /\ callerpc = "ret"
    /\ call.op = "clear_task"
    /\ call.seen = "False"
    /\ \E j \in Keys \ {call.key} :
          /\ Record(j) = <<"True", None, None>>
          /\ \E t \in Live : t.key = j

(***************************************************************************)
(* The LLM adapters: src/utils/llm_corrector.py (correct_transcript) and   *)
(* src/utils/llm_summarizer.py (summarize_text).  A text is a sequence of  *)
(* tokens; the tokens " " and "\n" are white space.                        *)
(***************************************************************************)

\* a text argument that is None
NoneText == <<"<None>">>

\* bool(t) of an optional text
TruthyText(t) == t # NoneText /\ t # <<>>

\* bool(s) of an optional string
TruthyStr(s) == s # None /\ s # ""

WhiteSpace == {" ", "\n"}

\* str.strip()
RECURSIVE Strip(_)
Strip(t) ==
    IF t = <<>> THEN <<>>
    ELSE IF Head(t) \in WhiteSpace THEN Strip(Tail(t))
    ELSE IF t[Len(t)] \in WhiteSpace THEN Strip(SubSeq(t, 1, Len(t) - 1))
    ELSE t

\* the request an adapter sends to the chat completion endpoint
Request(model, system, user, temperature, max_tokens) ==
    [model |-> model, system |-> system, user |-> user,
     temperature |-> temperature, max_tokens |-> max_tokens]

NoRequest == Request("", <<>>, <<>>, 0, 0)

\* how a call of an adapter ends
Returned(text, sent) ==
    [kind |-> "return", exc |-> "", msg |-> "", text |-> text, sent |-> sent]

Raised(exc, msg, sent) ==
    [kind |-> "raise", exc |-> exc, msg |-> msg, text |-> <<>>, sent |-> sent]

\* the temperature both adapters send, in tenths
AdapterTemperature == 7

CorrectMaxTokens == 4000

SummaryMaxTokens == 2000

\* what the endpoint answers: a text, no content, or an API error
Replies ==
    {[kind |-> "content", text |-> t] :
        t \in {<<"Hello", " ", "World.">>, <<" ", "ok", "\n">>, <<" ">>, <<>>}}
    \cup {[kind |-> "nocontent", text |-> <<>>], [kind |-> "apierror", text |-> <<>>]}

\* client.chat.completions.create(...) followed by
\* response.choices[0].message.content.strip()
Completion(sent, reply) ==
    CASE reply.kind = "content" -> Returned(Strip(reply.text), sent)
      [] reply.kind = "nocontent" ->
            Raised("AttributeError",
                   "'NoneType' object has no attribute 'strip'", sent)
      [] OTHER -> Raised("APIError", "Connection error.", sent)

default_prompt ==
    <<"Please correct any errors in the following transcription, including grammar, punctuation, and factual accuracy. Maintain the original meaning and style. Return only the corrected text without additional commentary.">>

\* lines 24-25 of llm_corrector.py left out
correct_transcript_keyless(transcript, provider, model, custom_prompt, api_key, reply) ==
    LET prompt == IF TruthyText(custom_prompt) THEN custom_prompt ELSE default_prompt
        full_prompt == prompt \o <<"\n", "\n", "Transcription:", "\n">> \o transcript
        sent == Request(model,
                        <<"You are a helpful assistant that corrects transcriptions.">>,
                        full_prompt, AdapterTemperature, CorrectMaxTokens)
    IN  CASE provider = "openai" -> Completion(sent, reply)
          [] provider = "anthropic" ->
                Raised("NameError", "name 'Anthropic' is not defined", NoRequest)
          [] provider = "local" ->
                Raised("NotImplementedError",
                       "Local provider not yet implemented. Please use OpenAI or Anthropic.",
                       NoRequest)
          [] OTHER -> Raised("ValueError", "Unknown provider: " \o provider, NoRequest)

\* llm_corrector.correct_transcript
correct_transcript(transcript, provider, model, custom_prompt, api_key, reply) ==
    IF ~TruthyStr(api_key)
    THEN Raised("ValueError", "API key is required", NoRequest)
    ELSE
    LET prompt == IF TruthyText(custom_prompt) THEN custom_prompt ELSE default_prompt
        full_prompt == prompt \o <<"\n", "\n", "Transcription:", "\n">> \o transcript
        sent == Request(model,
                        <<"You are a helpful assistant that corrects transcriptions.">>,
                        full_prompt, AdapterTemperature, CorrectMaxTokens)
    IN  CASE provider = "openai" -> Completion(sent, reply)
          [] provider = "anthropic" ->
                Raised("NameError", "name 'Anthropic' is not defined", NoRequest)
          [] provider = "local" ->
                Raised("NotImplementedError",
                       "Local provider not yet implemented. Please use OpenAI or Anthropic.",
                       NoRequest)
          [] OTHER -> Raised("ValueError", "Unknown provider: " \o provider, NoRequest)

\* type_instructions.get(summary_type, "Create a summary")
type_instructions(summary_type) ==
    CASE summary_type = "Brief" -> "Create a brief, concise summary"
      [] summary_type = "Detailed" -> "Create a detailed, comprehensive summary"
      [] summary_type = "Bullet Points" -> "Create a summary in bullet point format"
      [] summary_type = "Executive Summary" ->
            "Create an executive summary highlighting key points and decisions"
      [] OTHER -> "Create a summary"

\* llm_summarizer.summarize_text
summarize_text(text, provider, model, summary_type, max_length, custom_prompt, api_key, reply) ==
    IF ~TruthyStr(api_key)
    THEN Raised("ValueError", "API key is required", NoRequest)
    ELSE
    LET prompt ==
            IF TruthyText(custom_prompt) THEN custom_prompt
            ELSE <<type_instructions(summary_type),
                   " of the following text in approximately ",
                   ToString(max_length),
                   " words. Return only the summary without additional commentary.">>
        full_prompt == prompt \o <<"\n", "\n", "Text:", "\n">> \o text
        sent == Request(model,
                        <<"You are a helpful assistant that creates summaries.">>,
                        full_prompt, AdapterTemperature, SummaryMaxTokens)
    IN  CASE provider = "openai" -> Completion(sent, reply)
          [] provider = "anthropic" ->
                Raised("NameError", "name 'Anthropic' is not defined", NoRequest)
          [] provider = "local" ->
                Raised("NotImplementedError",
                       "Local provider not yet implemented. Please use OpenAI or Anthropic.",
                       NoRequest)
          [] OTHER -> Raised("ValueError", "Unknown provider: " \o provider, NoRequest)

\* the provider values the adapters have a branch for
RecognizedProviders == {"openai", "anthropic", "local"}

\* the arguments the adapters are studied on
AdapterArgs ==
    [fn : {"correct_transcript", "summarize_text"},
     text : {<<"hello", "\n", "world">>},
     provider : {"openai", "anthropic", "local", "OpenAI", "mistral"},
     model : {"gpt-4o"},
     summary_type : {"Brief", "concise"},
     max_length : {50},
     custom_prompt : {NoneText, <<>>, <<"Fix", " ", "it.">>},
     api_key : {None, "", "sk-test"},
     reply : Replies]

AdapterInit == arg \in AdapterArgs /\ out = Pending

CallCorrectTranscript ==
    /\ arg.fn = "correct_transcript"
    /\ out = Pending
    /\ out' = correct_transcript(arg.text, arg.provider, arg.model,
                                 arg.custom_prompt, arg.api_key, arg.reply)
    /\ UNCHANGED arg
    /\ UNCHANGED notPure

CallSummarizeText ==
    /\ arg.fn = "summarize_text"
    /\ out = Pending
    /\ out' = summarize_text(arg.text, arg.provider, arg.model, arg.summary_type,
                             arg.max_length, arg.custom_prompt, arg.api_key, arg.reply)
    /\ UNCHANGED arg
    /\ UNCHANGED notPure

AdapterNext == CallCorrectTranscript \/ CallSummarizeText

\* the registry is empty and stays so
RegistryOff == Init

\* nothing but a pure function is in use
PureOnly == RegistryOff /\ SessionOff /\ PageOff /\ WhisperOff

AdapterStart == AdapterInit /\ PureOnly

AdapterSpec == AdapterStart /\ [][AdapterNext]_allVars

\* C19 as stated: for every combination of API key and provider the adapter
\* fails when no API key is configured, fails when the provider is not a
\* recognized one, and for the provider local always fails with
\* NotImplementedError.
C19_AdapterFailures ==
    out # Pending =>
        /\ ~TruthyStr(arg.api_key) => out.kind = "raise"
        /\ arg.provider \notin RecognizedProviders => out.kind = "raise"
        /\ arg.provider = "local" =>
              (out.kind = "raise" /\ out.exc = "NotImplementedError")

\* C19 amended: the adapter fails when no API key is configured (with the
\* error "API key is required", whatever the provider), fails when the
\* provider is not a recognized one, and for the provider local with an API
\* key configured fails with NotImplementedError.
C19_AdapterFailuresKeyFirst ==
    out # Pending =>
        /\ ~TruthyStr(arg.api_key) =>
              (out.kind = "raise" /\ out.msg = "API key is required")
        /\ arg.provider \notin RecognizedProviders => out.kind = "raise"
        /\ (arg.provider = "local" /\ TruthyStr(arg.api_key)) =>
              (out.kind = "raise" /\ out.exc = "NotImplementedError")
        /\ out.kind = "raise" => out.sent = NoRequest \/ arg.provider = "openai"

\* an adapter was called with an API key and the provider local and raised
\* NotImplementedError
C19_Witness ==
    /\ out # Pending
    /\ arg.provider = "local" /\ TruthyStr(arg.api_key)
    /\ out.exc = "NotImplementedError"

(***************************************************************************)
(* The transcript encoding: src/services/lesson_service.py, save_transcript *)
(* and get_transcript_text.                                                *)
(***************************************************************************)

\* the longest segment list that is studied
MaxSegments == 3

\* the texts of the segments the speech model gives
SegmentTexts == {<<"hello">>, <<" ", "world", " ">>, <<" ">>, <<"a", " ", "b">>}

\* the segment lists: segment i runs from second i-1 to second i
SegmentLists ==
    UNION {[1..n -> SegmentTexts] : n \in 0..MaxSegments}

Segment(i, text) == [start |-> i - 1, end |-> i, text |-> text]

\* the values of the parameter transcript_data
TranscriptData ==
    {[type |-> "list", segments |-> [i \in DOMAIN l |-> Segment(i, l[i])],
      text |-> <<>>] : l \in SegmentLists}
    \cup {[type |-> "str", segments |-> <<>>, text |-> t] :
            t \in {<<>>, <<"abc">>, <<" ", "a", "b">>}}

\* a value of the column Lesson.transcript: None, a dict with the keys
\* `keys`, or a string that json.loads parses to that dict or rejects
Column(type, keys, segments, text, parses) ==
    [type |-> type, keys |-> keys, segments |-> segments, text |-> text,
     parses |-> parses]

NoColumn == Column("NoneType", {}, <<>>, <<>>, FALSE)

\* lines 163-168 with the branches taken the other way round
transcript_dict_swapped(transcript_data) ==
    IF transcript_data.type = "list"
    THEN Column("dict", {"text"}, transcript_data.segments, <<>>, FALSE)
    ELSE Column("dict", {"segments"}, <<>>, transcript_data.text, FALSE)

\* lines 163-168: the dict save_transcript stores
transcript_dict(transcript_data) ==
    IF transcript_data.type = "list"
    THEN Column("dict", {"segments"}, transcript_data.segments, <<>>, FALSE)
    ELSE Column("dict", {"text"}, <<>>, transcript_data.text, FALSE)

\* "\n".join(texts)
RECURSIVE Join(_)
Join(texts) ==
    IF Len(texts) = 0 THEN <<>>
    ELSE IF Len(texts) = 1 THEN texts[1]
    ELSE texts[1] \o <<"\n">> \o Join(Tail(texts))

\* "\n".join([seg["text"].strip() for seg in segments])
JoinSegments(segments) ==
    Join([i \in DOMAIN segments |-> Strip(segments[i].text)])

\* bool(lesson.transcript)
TruthyColumn(c) ==
    CASE c.type = "NoneType" -> FALSE
      [] c.type = "dict" -> c.keys # {}
      [] OTHER -> c.text # <<>>

\* lines 235-254: get_transcript_text; NoneText stands for None
get_transcript_text(c) ==
    IF ~TruthyColumn(c) THEN NoneText
    ELSE IF c.type = "dict"
    THEN IF "segments" \in c.keys THEN JoinSegments(c.segments)
         ELSE IF "text" \in c.keys THEN c.text ELSE NoneText
    ELSE IF c.parses
    THEN IF "segments" \in c.keys THEN JoinSegments(c.segments) ELSE c.text
    ELSE c.text

\* the columns written before transcripts were stored as dicts
LegacyColumns ==
    {Column("str", {}, <<>>, <<"old", " ", "text">>, FALSE),
     Column("str", {"segments"}, <<Segment(1, <<" ", "old">>)>>,
            <<"{segments}">>, TRUE),
     NoColumn}

TranscriptInit ==
    /\ arg \in [fn : {"save_transcript"}, data : TranscriptData, column : {NoColumn}]
              \cup [fn : {"get_transcript_text"},
                    data : {[type |-> "str", segments |-> <<>>, text |-> <<>>]},
                    column : LegacyColumns]
    /\ out = Pending

\* save_transcript: the column after update_lesson
SaveTranscript ==
    /\ arg.fn = "save_transcript"
    /\ out = Pending
    /\ out' = [kind |-> "saved", column |-> transcript_dict(arg.data),
               flat |-> NoneText]
    /\ UNCHANGED arg
    /\ UNCHANGED notPure

\* get_transcript_text on the lesson save_transcript has written
GetSavedText ==
    /\ out.kind = "saved"
    /\ out' = [out EXCEPT !.kind = "read", !.flat = get_transcript_text(out.column)]
    /\ UNCHANGED arg
    /\ UNCHANGED notPure

\* get_transcript_text on a lesson written in an older format
GetLegacyText ==
    /\ arg.fn = "get_transcript_text"
    /\ out = Pending
    /\ out' = [kind |-> "read", column |-> arg.column,
               flat |-> get_transcript_text(arg.column)]
    /\ UNCHANGED arg
    /\ UNCHANGED notPure

TranscriptNext == SaveTranscript \/ GetSavedText \/ GetLegacyText

TranscriptStart == TranscriptInit /\ PureOnly

TranscriptSpec == TranscriptStart /\ [][TranscriptNext]_allVars

\* the text is blank: nothing is left of it after strip()
Blank(t) == Strip(t) = <<>>

\* s is what is left of t when the white space at both ends is taken away
IsStripOf(s, t) ==
    /\ s = <<>> \/ (s[1] \notin WhiteSpace /\ s[Len(s)] \notin WhiteSpace)
    /\ \E a \in 0..Len(t) :
          /\ a + Len(s) <= Len(t)
          /\ SubSeq(t, a + 1, a + Len(s)) = s
          /\ \A i \in (1..a) \cup ((a + Len(s) + 1)..Len(t)) : t[i] \in WhiteSpace

\* the lines of text t
RECURSIVE SplitLines(_)
SplitLines(t) ==
    IF \A i \in DOMAIN t : t[i] # "\n" THEN <<t>>
    ELSE LET k == CHOOSE i \in DOMAIN t :
                      t[i] = "\n" /\ \A j \in 1..(i - 1) : t[j] # "\n"
         IN  <<SubSeq(t, 1, k - 1)>> \o SplitLines(SubSeq(t, k + 1, Len(t)))

\* flat holds one line per segment, in segment order, and line i is the
\* stripped text of segment i
Flattens(flat, segments) ==
    IF Len(segments) = 0 THEN flat = <<>>
    ELSE /\ Len(SplitLines(flat)) = Len(segments)
         /\ \A i \in DOMAIN segments :
               IsStripOf(SplitLines(flat)[i], segments[i].text)

\* save_transcript stores a list under the one key "segments" and a string
\* under the one key "text", and get_transcript_text gives the text itself,
\* or the stripped segment texts joined in segment order
RoundTrip ==
    /\ out.kind \in {"saved", "read"} /\ arg.fn = "save_transcript" =>
          /\ out.column.type = "dict"
          /\ arg.data.type = "list" =>
                (out.column.keys = {"segments"}
                    /\ out.column.segments = arg.data.segments)
          /\ arg.data.type = "str" =>
                (out.column.keys = {"text"} /\ out.column.text = arg.data.text)
    /\ out.kind = "read" /\ arg.fn = "save_transcript" =>
          /\ arg.data.type = "str" => out.flat = arg.data.text
          /\ arg.data.type = "list" => Flattens(out.flat, arg.data.segments)

\* C20 as stated: the round trip holds and the flattened text of a lesson
\* that holds either variant is not empty.
C20_RoundTripNonEmpty ==
    /\ RoundTrip
    /\ out.kind = "read" /\ arg.fn = "save_transcript" =>
          (out.flat # NoneText /\ out.flat # <<>>)

\* C20 amended: the round trip holds, and the flattened text is not empty
\* when the plain text is not empty, or when some segment has a text that
\* is not blank.
C20_RoundTripNonEmptyInput ==
    /\ RoundTrip
    /\ out.kind = "read" /\ arg.fn = "save_transcript" =>
          /\ out.flat # NoneText
          /\ (arg.data.type = "str" /\ arg.data.text # <<>>) => out.flat # <<>>
          /\ (arg.data.type = "list"
                /\ \E i \in DOMAIN arg.data.segments :
                      ~Blank(arg.data.segments[i].text)) => out.flat # <<>>

\* a list of two segments was saved and read back as the two stripped
\* texts with a newline between them
C20_Witness ==
    /\ out.kind = "read"
    /\ arg.fn = "save_transcript"
    /\ arg.data.type = "list"
    /\ Len(arg.data.segments) = 2
    /\ out.flat = <<"hello", "\n", "world">>

(* ---------------- the registry across re-executions ------------------- *)
(* src/utils/background_tasks.py, __init__, and src/pages/Process.py,     *)
(* line 80: every re-execution of the page constructs a new               *)
(* BackgroundTaskManager.  Dictionaries are objects with an identity; an  *)
(* instance holds references to three of them, and so does the closure of *)
(* every thread the instance started.                                     *)

\* the largest number of instances constructed in one session
MaxManagers == 3

\* a new dictionary: {}
EmptyDict == [k \in Keys |-> Missing]

\* st.session_state.setdefault(name, {}) on the session ss and heap hp: the
\* session, the heap and the reference that comes back
setdefault(ss, hp, name) ==
    IF ss[name] # NoRef
    THEN [ss |-> ss, hp |-> hp, ref |-> ss[name]]
    ELSE [ss |-> [ss EXCEPT ![name] = Len(hp) + 1],
          hp |-> Append(hp, EmptyDict),
          ref |-> Len(hp) + 1]

\* __init__ written with three new dictionaries instead of setdefault
construct_fresh(ss, hp) ==
    [ss |-> [n \in Names |-> IF n = "background_tasks" THEN Len(hp) + 1
                             ELSE IF n = "task_results" THEN Len(hp) + 2
                             ELSE Len(hp) + 3],
     hp |-> hp \o <<EmptyDict, EmptyDict, EmptyDict>>,
     self |-> [background_tasks |-> Len(hp) + 1, task_results |-> Len(hp) + 2,
               task_errors |-> Len(hp) + 3]]

\* __init__, lines 13-15: the session, the heap and the new instance
construct(ss, hp) ==
    LET a == setdefault(ss, hp, "background_tasks")
        b == setdefault(a.ss, a.hp, "task_results")
        c == setdefault(b.ss, b.hp, "task_errors")
    IN  [ss |-> c.ss, hp |-> c.hp,
         self |-> [background_tasks |-> a.ref, task_results |-> b.ref,
                   task_errors |-> c.ref]]

\* the instance of the current re-execution
task_manager == managers[Len(managers)]

\* the read methods of instance self
self_is_running(self, k) ==
    IF heap[self.background_tasks][k] = Missing THEN FALSE
    ELSE heap[self.background_tasks][k] = "True"

self_is_complete(self, k) ==
    IF heap[self.background_tasks][k] = Missing THEN FALSE
    ELSE heap[self.background_tasks][k] # "True"

self_get_result(self, k) ==
    IF heap[self.task_results][k] = Missing THEN None
    ELSE heap[self.task_results][k]

self_get_error(self, k) ==
    IF heap[self.task_errors][k] = Missing THEN None
    ELSE heap[self.task_errors][k]

\* what instance self reports for key k
Reports(self, k) ==
    <<self_is_running(self, k), self_is_complete(self, k),
      self_get_result(self, k), self_get_error(self, k)>>

SessionInit == SessionOff

\* a re-execution of the page reaches line 80
Construct ==
    /\ Len(managers) < MaxManagers
    /\ LET c == construct(session_state, heap)
       IN  /\ session_state' = c.ss
           /\ heap' = c.hp
           /\ managers' = Append(managers, c.self)
    /\ UNCHANGED <<workers, started>>
    /\ UNCHANGED notSession

\* run_task(k, f) on the current instance, the key is known: lines 26-28
SessionRunTaskKnown(k) ==
    /\ managers # <<>>
    /\ heap[task_manager.background_tasks][k] # Missing
    /\ UNCHANGED sessionVars
    /\ UNCHANGED notSession

\* run_task(k, f) on the current instance, the key is new: lines 31-45
SessionRunTask(k, f) ==
    /\ managers # <<>>
    /\ heap[task_manager.background_tasks][k] = Missing
    /\ BagCardinality(workers) < MaxThreads
    /\ heap' = [heap EXCEPT ![task_manager.background_tasks][k] = "True",
                            ![task_manager.task_results][k] = None,
                            ![task_manager.task_errors][k] = None]
    /\ workers' = workers (+) SetToBag({[key |-> k, func |-> f,
                                          self |-> task_manager]})
    /\ started' = [started EXCEPT ![k] = Len(managers)]
    /\ UNCHANGED <<session_state, managers>>
    /\ UNCHANGED notSession

\* task_wrapper of thread w, lines 36-42: the dictionaries are those of the
\* instance that started the thread
SessionWrapper(w) ==
    /\ w \in BagToSet(workers)
    /\ w.func.kind # "hang"
    /\ heap' = IF w.func.kind = "return"
               THEN [heap EXCEPT ![w.self.task_results][w.key] = w.func.val,
                                 ![w.self.background_tasks][w.key] = "False"]
               ELSE [heap EXCEPT ![w.self.task_errors][w.key] = ExcStr(w.func.args),
                                 ![w.self.background_tasks][w.key] = "False"]
    /\ workers' = workers (-) SetToBag({w})
    /\ UNCHANGED <<session_state, managers, started>>
    /\ UNCHANGED notSession

\* clear_task(k) on the current instance, lines 67-72
SessionClearTask(k) ==
    /\ managers # <<>>
    /\ heap' = [heap EXCEPT ![task_manager.background_tasks][k] = Missing,
                            ![task_manager.task_results][k] = Missing,
                            ![task_manager.task_errors][k] = Missing]
    /\ started' = [started EXCEPT ![k] = 0]
    /\ UNCHANGED <<session_state, managers, workers>>
    /\ UNCHANGED notSession

SessionNext ==
    \/ Construct
    \/ \E k \in Keys : SessionRunTaskKnown(k)
    \/ \E k \in Keys, f \in Funcs : SessionRunTask(k, f)
    \/ \E k \in Keys, f \in Funcs :
          \E w \in {x \in BagToSet(workers) : x.key = k /\ x.func = f} :
              SessionWrapper(w)
    \/ \E k \in Keys : SessionClearTask(k)

\* nothing but the session is in use
SessionOnly == RegistryOff /\ PureOff /\ PageOff /\ WhisperOff

SessionStart == SessionInit /\ SessionOnly

SessionSpec == SessionStart /\ [][SessionNext]_allVars

\* C11: a task started in one re-execution is not lost: as long as its key
\* has not been cleared, every instance constructed in the same or a later
\* re-execution reports for the key the running flag, the completion flag,
\* the result and the error that the instance that started it reports.
C11_SameAcrossInstances ==
    \A k \in Keys : started[k] # 0 =>
        \A j \in started[k]..Len(managers) :
            Reports(managers[j], k) = Reports(managers[started[k]], k)

\* a task started by the first instance has stored its result and the third
\* instance of the session reads it
C11_Witness ==
    \E k \in Keys :
        /\ started[k] = 1
        /\ Len(managers) = 3
        /\ self_is_complete(managers[3], k)
        /\ self_get_result(managers[3], k) = "segments"

(***************************************************************************)
(* The page Process (src/pages/Process.py): the script of the page is     *)
(* executed from the top at every event of the session; its tabs          *)
(* Transcribe, Correct and Summarize hand work functions to the registry, *)
(* and the work functions write the row of the lesson.                    *)
(***************************************************************************)

\* the largest number of work functions the page hands to run_task
MaxRuns == 2

(* ------------------------------ setup.yaml ---------------------------- *)

\* section.get(name, default); a name the section does not have is Missing
Get(value, default) == IF value = Missing THEN default ELSE value

\* section.get(name, default) of a text; NoneText stands for a missing name
GetText(value, default) == IF value = NoneText THEN default ELSE value

\* section.get(name, default) of a number; 0 stands for a missing name
GetInt(value, default) == IF value = 0 THEN default ELSE value

\* a setup.yaml without any of the sections
SetupEmpty ==
    [whisper |-> [model_size |-> Missing, device |-> Missing,
                  compute_type |-> Missing],
     transcribe |-> [language |-> Missing, beam_size |-> Missing,
                     vad_filter |-> Missing, initial_prompt |-> Missing],
     correction |-> [provider |-> Missing, model |-> Missing,
                     temperature |-> Missing, prompt |-> NoneText],
     summary |-> [provider |-> Missing, model |-> Missing,
                  temperature |-> Missing, type |-> Missing, max_length |-> 0,
                  prompt |-> NoneText]]

\* a setup.yaml the Setup page has written
SetupEdited ==
    [whisper |-> [model_size |-> "small", device |-> "cpu",
                  compute_type |-> "float32"],
     transcribe |-> [language |-> "fr", beam_size |-> "1",
                     vad_filter |-> "False", initial_prompt |-> "Lecture."],
     correction |-> [provider |-> "OpenAI", model |-> "gpt-4o-mini",
                     temperature |-> "0.5", prompt |-> <<"Fix", " ", "it.">>],
     summary |-> [provider |-> "OpenAI", model |-> "gpt-4o-mini",
                  temperature |-> "0.2", type |-> "Brief", max_length |-> 50,
                  prompt |-> <<"Sum", " ", "up.">>]]

\* a setup.yaml written by hand: Correct with the provider the adapters have
\* no client for, Summarize with a provider they do not know
SetupLocal ==
    [SetupEmpty EXCEPT !.correction.provider = "Local",
                       !.summary.provider = "Mistral"]

\* str.lower() on the provider names
lower(provider) ==
    CASE provider = "OpenAI" -> "openai"
      [] provider = "Anthropic" -> "anthropic"
      [] provider = "Local" -> "local"
      [] provider = "Mistral" -> "mistral"
      [] OTHER -> provider

(* ------------------------------ task ids ------------------------------ *)

LessonIds == {1, 2}

TranscriptTypes == {"Original Transcript", "Corrected Transcript"}

\* line 302
transcribe_task_id(lesson_id) == "transcribe_" \o ToString(lesson_id)

\* line 457
correct_task_id(lesson_id) == "correct_" \o ToString(lesson_id)

\* line 628 with the transcript type left out
summary_task_id_untyped(lesson_id, type) == "summary_" \o ToString(lesson_id)

\* line 628
summary_task_id(lesson_id, type) ==
    "summary_" \o ToString(lesson_id) \o "_" \o type

\* the stages of a lesson that have a task id of their own
Stages ==
    {<<"transcribe", "">>, <<"correct", "">>}
    \cup {<<"summary", type>> : type \in TranscriptTypes}

\* the task id of stage st of lesson lesson_id
task_id(lesson_id, st) ==
    CASE st[1] = "transcribe" -> transcribe_task_id(lesson_id)
      [] st[1] = "correct" -> correct_task_id(lesson_id)
      [] OTHER -> summary_task_id(lesson_id, st[2])

\* the lesson the page works on
SelectedLesson == 1

\* the task ids of the lesson the page works on
PageKeys == {task_id(SelectedLesson, st) : st \in Stages}

(* --------------------------- the lesson row --------------------------- *)

\* TranscriptMetadata(...).model_dump()
TranscriptMetadata(model_size, device, compute_type, beam_size, vad_filter, language, initial_prompt) ==
    [model_size |-> model_size, device |-> device, compute_type |-> compute_type,
     beam_size |-> beam_size, vad_filter |-> vad_filter, language |-> language,
     initial_prompt |-> initial_prompt]

\* Metadata(...).model_dump()
Metadata(provider, model, temperature, prompt) ==
    [provider |-> provider, model |-> model, temperature |-> temperature,
     prompt |-> prompt]

\* a metadata column that is NULL
NullTranscriptMetadata ==
    TranscriptMetadata(Missing, Missing, Missing, Missing, Missing, Missing, Missing)

NullMetadata == Metadata(Missing, Missing, Missing, NoneText)

\* the columns of a lesson the stages write
Columns == {"transcript", "transcript_metadata", "corrected_transcript",
            "correction_metadata", "summary", "summary_metadata"}

\* a lesson none of the stages has run on
NewLesson ==
    [transcript |-> NoColumn, transcript_metadata |-> NullTranscriptMetadata,
     corrected_transcript |-> NoColumn, correction_metadata |-> NullMetadata,
     summary |-> NoneText, summary_metadata |-> NullMetadata]

\* update_lesson that writes the None of every argument left out
update_lesson_write_none(row, fields) ==
    [c \in DOMAIN row |-> IF c \in DOMAIN fields THEN fields[c] ELSE NewLesson[c]]

\* update_lesson with a previous metadata column kept when there is one
update_lesson_keep_metadata(row, fields) ==
    [c \in DOMAIN row |->
        IF c \in DOMAIN fields
              /\ (c \in {"transcript_metadata", "correction_metadata",
                         "summary_metadata"}
                     => row[c] \in {NullTranscriptMetadata, NullMetadata})
        THEN fields[c] ELSE row[c]]

\* crud.update_lesson: one update of the row that replaces the columns
\* given and leaves the others alone
update_lesson(row, fields) ==
    [c \in DOMAIN row |-> IF c \in DOMAIN fields THEN fields[c] ELSE row[c]]

\* save_transcript, lines 163-184
save_transcript(row, transcript_data, metadata) ==
    update_lesson(row,
        [transcript |-> transcript_dict(transcript_data),
         transcript_metadata |->
             TranscriptMetadata(metadata.model_size, metadata.device,
                                metadata.compute_type, metadata.beam_size,
                                metadata.vad_filter, metadata.language,
                                metadata.initial_prompt)])

\* save_corrected_transcript, lines 196-208
save_corrected_transcript(row, corrected_text, provider, model, temperature, prompt) ==
    update_lesson(row,
        [corrected_transcript |-> Column("dict", {"text"}, <<>>, corrected_text, FALSE),
         correction_metadata |-> Metadata(provider, model, temperature, prompt)])

\* save_summary that keeps the metadata of a summary the lesson already has
save_summary_stale_metadata(row, summary_text, provider, model, temperature, prompt) ==
    update_lesson(row,
        [summary |-> summary_text,
         summary_metadata |->
             IF row.summary_metadata = NullMetadata
             THEN Metadata(provider, model, temperature, prompt)
             ELSE row.summary_metadata])

\* save_summary, lines 220-231
save_summary(row, summary_text, provider, model, temperature, prompt) ==
    update_lesson(row,
        [summary |-> summary_text,
         summary_metadata |-> Metadata(provider, model, temperature, prompt)])

\* get_corrected_transcript_text, lines 273-284
get_corrected_transcript_text(c) ==
    IF ~TruthyColumn(c) THEN NoneText
    ELSE IF c.type = "dict"
    THEN IF "text" \in c.keys THEN c.text ELSE NoneText
    ELSE c.text

(* ------------------------- the work functions ------------------------- *)

\* the closure of a work function of the page: what it captured at the
\* submission, how far it has come (at), what the engine gave it, and what
\* it returns (val) or raises (args); kind is "hang" until it comes back
Closure(stage, run, captured, text, before) ==
    [kind |-> "hang", val |-> None, args |-> <<>>,
     stage |-> stage, at |-> "engine", run |-> run, submitted |-> setup,
     captured |-> captured, text |-> text, before |-> before,
     segments |-> <<>>, text_out |-> <<>>,
     metadata |-> IF stage[1] = "transcribe" THEN NullTranscriptMetadata
                  ELSE NullMetadata,
     sent |-> NoRequest]

\* the columns a stage writes: the payload and its metadata
Payload(stage) ==
    CASE stage[1] = "transcribe" -> "transcript"
      [] stage[1] = "correct" -> "corrected_transcript"
      [] OTHER -> "summary"

MetadataOf(stage) ==
    CASE stage[1] = "transcribe" -> "transcript_metadata"
      [] stage[1] = "correct" -> "correction_metadata"
      [] OTHER -> "summary_metadata"

\* lines 347-358: what the Transcribe button captures from setup.yaml
transcribe_captured(config_loaded) ==
    LET transcribe_config == config_loaded.transcribe
        language == Get(transcribe_config.language, "auto")
    IN  [language |-> IF language = "auto" THEN None ELSE language,
         beam_size |-> Get(transcribe_config.beam_size, "5"),
         vad_filter |-> Get(transcribe_config.vad_filter, "True"),
         initial_prompt |-> Get(transcribe_config.initial_prompt, None)]

\* lines 502-511: what the Correct button captures
correct_captured(config_loaded) ==
    LET correction_config == config_loaded.correction
    IN  [api_key |-> session_api_key,
         provider |-> lower(Get(correction_config.provider, "OpenAI")),
         model |-> Get(correction_config.model, "gpt-4o"),
         temperature |-> Get(correction_config.temperature, "0.3"),
         prompt |-> GetText(correction_config.prompt,
             <<"Please correct any errors in the following transcription, including grammar, punctuation, and factual accuracy. Maintain the original meaning and style.">>)]

\* lines 668-680: what the Generate Summary button captures
summary_captured(config_loaded) ==
    LET summary_config == config_loaded.summary
    IN  [api_key |-> session_api_key,
         provider |-> lower(Get(summary_config.provider, "OpenAI")),
         model |-> Get(summary_config.model, "gpt-4o"),
         temperature |-> Get(summary_config.temperature, "0.7"),
         type |-> Get(summary_config.type, "concise"),
         max_length |-> GetInt(summary_config.max_length, 300),
         prompt |-> GetText(summary_config.prompt,
             <<"Please provide a comprehensive summary of the following transcript. Focus on the main points, key insights, and important details.">>)]

\* get_whisper_model, lines 19-30, when setup.yaml holds config
get_whisper_model(config) ==
    [model_size |-> Get(config.whisper.model_size, "large-v3"),
     device |-> Get(config.whisper.device, "cuda"),
     compute_type |-> Get(config.whisper.compute_type, "int8")]

\* what model.transcribe gives: the segments, or an exception
Transcriptions ==
    {[kind |-> "return", segments |-> l, msg |-> ""] :
        l \in {<<Segment(1, <<" ", "hello">>)>>, <<>>}}
    \cup {[kind |-> "raise", segments |-> <<>>, msg |-> "Invalid data found"]}

\* what the endpoint answers to the work functions of the page
PageReplies ==
    {[kind |-> "content", text |-> <<"ok">>],
     [kind |-> "apierror", text |-> <<>>]}

\* a text as the one string it is
RECURSIVE Cat(_)
Cat(text) == IF text = <<>> THEN "" ELSE Head(text) \o Cat(Tail(text))

\* the value a work function returns, as the registry holds it
SegmentsVal(segments) == IF segments = <<>> THEN "[]" ELSE "[segments]"

\* bool(v) of a value the registry holds
TruthyVal(v) == v \notin {None, "", "[]"}

(* --------------------------- the page script -------------------------- *)

\* the tabs in the order the script goes through them
Tabs == {"transcribe", "correct", "summary"}

\* the stage a tab works on
StageOf(tab) == IF tab = "summary" THEN <<tab, transcript_type>> ELSE <<tab, "">>

\* the task id a tab works with: lines 302, 457, 628
TabKey(tab) == task_id(SelectedLesson, StageOf(tab))

\* the text a tab hands to its work function: lines 395, 559, 564
TabText(tab) ==
    CASE tab = "transcribe" -> <<>>
      [] tab = "correct" -> get_transcript_text(lesson.transcript)
      [] OTHER -> IF transcript_type = "Original Transcript"
                  THEN get_transcript_text(lesson.transcript)
                  ELSE get_corrected_transcript_text(lesson.corrected_transcript)

\* the checks of lines 237, 392, 556 and 561 left out
TabOpen_unchecked(tab) == TRUE

\* the tab finds what its stage needs: lines 237, 392, 556, 561
TabOpen(tab) ==
    CASE tab = "transcribe" -> audio = "True"
      [] tab = "correct" -> TruthyColumn(lesson.transcript)
      [] OTHER -> IF transcript_type = "Original Transcript"
                  THEN TruthyColumn(lesson.transcript)
                  ELSE TruthyColumn(lesson.corrected_transcript)

\* where the script goes after a tab
After(tab) ==
    CASE tab = "transcribe" -> "correct"
      [] tab = "correct" -> "summary"
      [] OTHER -> "idle"

\* the script is at the top of tab or at its button
AtTab(tab) == pagepc = tab /\ AtRest
AtButton(tab) == pagepc = tab \o "_button" /\ AtRest

\* no widget has been acted on
NoWidget == [stage |-> <<"none", "">>, running |-> FALSE, ready |-> FALSE,
             outcome |-> "none"]

\* the button of tab is the widget of this re-execution: st.button(...)
Clicked(tab) == request.stage = StageOf(tab) /\ request.outcome = "pending"

\* the request ends with outcome o if the script was still to deal with it
Outcome(o) ==
    IF request.outcome = "pending" THEN [request EXCEPT !.outcome = o]
    ELSE request

registry == <<background_tasks, task_results, task_errors, threads>>

\* a lesson that has been through the stages before
OldLessons ==
    {NewLesson,
     [NewLesson EXCEPT
         !.transcript = transcript_dict([type |-> "list",
                                         segments |-> <<Segment(1, <<"hi">>)>>,
                                         text |-> <<>>])],
     [NewLesson EXCEPT
         !.transcript = transcript_dict([type |-> "list",
                                         segments |-> <<Segment(1, <<"hi">>)>>,
                                         text |-> <<>>]),
         !.corrected_transcript = Column("dict", {"text"}, <<>>, <<"Hi.">>, FALSE)]}

PageInit ==
    /\ background_tasks = [k \in PageKeys |-> Missing]
    /\ task_results = [k \in PageKeys |-> Missing]
    /\ task_errors = [k \in PageKeys |-> Missing]
    /\ threads = EmptyBag
    /\ callerpc = "idle"
    /\ call = NoCall
    /\ setup \in {SetupEmpty, SetupLocal}
    /\ audio \in {"True", "False"}
    /\ session_api_key \in {None, "sk-test"}
    /\ lesson \in OldLessons
    /\ written = [c \in Columns |-> 0]
    /\ pagepc = "idle"
    /\ request = NoWidget
    /\ transcript_type = "Original Transcript"
    /\ nruns = 0

\* the user presses the button of a tab while the script rests or sleeps
Click(tab) ==
    /\ pagepc \in {"idle", "sleep"}
    /\ AtRest
    /\ nruns < MaxRuns
    /\ request' = [stage |-> StageOf(tab),
                   running |-> is_running(TabKey(tab)),
                   ready |-> TabOpen(tab) /\ (tab = "transcribe"
                                               \/ TruthyStr(session_api_key)),
                   outcome |-> "pending"]
    /\ pagepc' = "transcribe"
    /\ UNCHANGED <<setup, audio, session_api_key, lesson, written,
                   transcript_type, nruns>>
    /\ UNCHANGED <<vars, notPage>>

\* the user chooses the other transcript type in the Summarize tab
ChooseTranscriptType ==
    /\ pagepc \in {"idle", "sleep"}
    /\ AtRest
    /\ transcript_type' = CHOOSE type \in TranscriptTypes : type # transcript_type
    /\ pagepc' = "transcribe"
    /\ UNCHANGED <<setup, audio, session_api_key, lesson, written, request, nruns>>
    /\ UNCHANGED <<vars, notPage>>

\* the user chooses another lesson in the sidebar, lines 110-120: the script
\* is executed for that lesson, which has no task, and the tabs of lesson
\* SelectedLesson are not executed while the other lesson is chosen
SelectOtherLesson ==
    /\ pagepc \in {"idle", "sleep"}
    /\ AtRest
    /\ pagepc' = "elsewhere"
    /\ UNCHANGED <<setup, audio, session_api_key, lesson, written, request,
                   transcript_type, nruns>>
    /\ UNCHANGED <<vars, notPage>>

\* the user chooses lesson SelectedLesson again
SelectLessonAgain ==
    /\ pagepc = "elsewhere"
    /\ pagepc' = "transcribe"
    /\ UNCHANGED <<setup, audio, session_api_key, lesson, written, request,
                   transcript_type, nruns>>
    /\ UNCHANGED <<vars, notPage>>

\* time.sleep(2) is over: st.rerun(), lines 308-309, 463-464, 634-635
Wake ==
    /\ pagepc = "sleep"
    /\ pagepc' = "transcribe"
    /\ UNCHANGED <<setup, audio, session_api_key, lesson, written, request,
                   transcript_type, nruns>>
    /\ UNCHANGED <<vars, notPage>>

\* the Setup page writes setup.yaml
EditSetup ==
    /\ setup = SetupEmpty
    /\ setup' = SetupEdited
    /\ UNCHANGED <<audio, session_api_key, lesson, written, pagepc, request,
                   transcript_type, nruns>>
    /\ UNCHANGED <<vars, notPage>>

\* lines 237-239 and 556-566: what the stage needs is missing, st.stop()
TabStop(tab) ==
    /\ tab \in {"transcribe", "summary"}
    /\ AtTab(tab)
    /\ ~TabOpen(tab)
    /\ pagepc' = "idle"
    /\ request' = Outcome("stopped")
    /\ UNCHANGED <<setup, audio, session_api_key, lesson, written,
                   transcript_type, nruns>>
    /\ UNCHANGED <<vars, notPage>>

\* lines 392-393: no transcript, the Correct tab shows a warning only
TabSkip(tab) ==
    /\ tab = "correct"
    /\ AtTab(tab)
    /\ ~TabOpen(tab)
    /\ pagepc' = After(tab)
    /\ request' = IF Clicked(tab) THEN Outcome("skipped") ELSE request
    /\ UNCHANGED <<setup, audio, session_api_key, lesson, written,
                   transcript_type, nruns>>
    /\ UNCHANGED <<vars, notPage>>

\* the poll of a tab finds its task running: time.sleep(2) and st.rerun()
PollRunning(tab) ==
    /\ AtTab(tab)
    /\ TabOpen(tab)
    /\ is_running(TabKey(tab))
    /\ pagepc' = "sleep"
    /\ request' = Outcome("polling")
    /\ UNCHANGED <<setup, audio, session_api_key, lesson, written,
                   transcript_type, nruns>>
    /\ UNCHANGED <<vars, notPage>>

\* the tab shows the error or the result of its task and calls clear_task
Harvest(k) ==
    /\ ~is_running(k)
    /\ is_complete(k)
    /\ TruthyStr(get_error(k)) \/ TruthyVal(get_result(k))

\* the poll of a tab finds its task complete with an error or a result
PollClear(tab) ==
    /\ AtTab(tab)
    /\ TabOpen(tab)
    /\ Harvest(TabKey(tab))
    /\ callerpc' = "ct67"
    /\ call' = [op |-> "clear_task", key |-> TabKey(tab), func |-> NoFunc,
                seen |-> background_tasks[TabKey(tab)]]
    /\ pagepc' = tab \o "_button"
    /\ UNCHANGED <<setup, audio, session_api_key, lesson, written, request,
                   transcript_type, nruns>>
    /\ UNCHANGED <<registry, notPage>>

\* the poll of a tab finds nothing to show
PollPass(tab) ==
    /\ AtTab(tab)
    /\ TabOpen(tab)
    /\ ~is_running(TabKey(tab))
    /\ ~Harvest(TabKey(tab))
    /\ pagepc' = tab \o "_button"
    /\ UNCHANGED <<setup, audio, session_api_key, lesson, written, request,
                   transcript_type, nruns>>
    /\ UNCHANGED <<vars, notPage>>

\* st.button(...) is False
ButtonIdle(tab) ==
    /\ AtButton(tab)
    /\ ~Clicked(tab)
    /\ pagepc' = After(tab)
    /\ UNCHANGED <<setup, audio, session_api_key, lesson, written, request,
                   transcript_type, nruns>>
    /\ UNCHANGED <<vars, notPage>>

\* the button with a test of the provider in front of the submission
Refused_provider(tab) ==
    \/ is_running(TabKey(tab))
    \/ tab # "transcribe" /\ ~TruthyStr(session_api_key)
    \/ tab = "correct" /\ lower(Get(setup.correction.provider, "OpenAI")) # "openai"
    \/ tab = "summary" /\ lower(Get(setup.summary.provider, "OpenAI")) # "openai"

\* the button refuses: the task is running, or there is no API key
Refused(tab) ==
    \/ is_running(TabKey(tab))
    \/ tab # "transcribe" /\ ~TruthyStr(session_api_key)

ButtonRefuse(tab) ==
    /\ AtButton(tab)
    /\ Clicked(tab)
    /\ Refused(tab)
    /\ pagepc' = After(tab)
    /\ request' = Outcome(IF is_running(TabKey(tab)) THEN "in_progress"
                          ELSE "no_api_key")
    /\ UNCHANGED <<setup, audio, session_api_key, lesson, written,
                   transcript_type, nruns>>
    /\ UNCHANGED <<vars, notPage>>

\* the work function the button of tab makes
TabTask(tab) ==
    Closure(StageOf(tab), nruns + 1,
            CASE tab = "transcribe" -> transcribe_captured(setup)
              [] tab = "correct" -> correct_captured(setup)
              [] OTHER -> summary_captured(setup),
            TabText(tab),
            <<written[Payload(StageOf(tab))], written[MetadataOf(StageOf(tab))]>>)

\* the button captures the settings and calls run_task: lines 345-377,
\* 500-534, 666-704
ButtonSubmit(tab) ==
    /\ AtButton(tab)
    /\ Clicked(tab)
    /\ ~Refused(tab)
    /\ callerpc' = "rt26"
    /\ call' = [op |-> "run_task", key |-> TabKey(tab), func |-> TabTask(tab),
                seen |-> Missing]
    /\ nruns' = nruns + 1
    /\ pagepc' = "rerun"
    /\ request' = Outcome("handed")
    /\ UNCHANGED <<setup, audio, session_api_key, lesson, written, transcript_type>>
    /\ UNCHANGED <<registry, notPage>>

\* run_task has returned: st.rerun(), lines 378, 535, 705
Rerun ==
    /\ pagepc = "rerun"
    /\ callerpc = "ret"
    /\ pagepc' = "transcribe"
    /\ request' = [request EXCEPT
                      !.outcome = IF call.seen = Missing THEN "started" ELSE "known"]
    /\ UNCHANGED <<setup, audio, session_api_key, lesson, written,
                   transcript_type, nruns>>
    /\ UNCHANGED <<vars, notPage>>

(* ---------------------- the work functions at work -------------------- *)

\* transcribe_audio, lines 64-104, when model.transcribe gives outcome
transcribe_audio(language, beam_size, vad_filter, initial_prompt, outcome) ==
    LET model == get_whisper_model(setup)
    IN  [kind |-> outcome.kind, msg |-> outcome.msg,
         segments |-> outcome.segments,
         metadata |-> TranscriptMetadata(model.model_size, model.device,
                                         model.compute_type, beam_size,
                                         vad_filter, language, initial_prompt)]

\* thread t is inside the work function of stage, at position at
Inside(t, stage, at) ==
    /\ t \in Live
    /\ t.pc = "func"
    /\ t.func.kind = "hang"
    /\ t.func.stage[1] = stage
    /\ t.func.at = at

\* the work function raises: task_wrapper will store str(e)
Raise(f, msg) == [f EXCEPT !.kind = "raise", !.args = <<msg>>, !.at = "done"]

\* transcribe_task, lines 362-368: the call of transcribe_audio
TranscribeTaskEngine(t) ==
    /\ Inside(t, "transcribe", "engine")
    /\ \E outcome \in Transcriptions :
          LET f == t.func
              r == transcribe_audio(f.captured.language, f.captured.beam_size,
                                    f.captured.vad_filter,
                                    f.captured.initial_prompt, outcome)
          IN  threads' = Replace(t, [t EXCEPT !.func =
                  IF r.kind = "return"
                  THEN [f EXCEPT !.at = "save", !.segments = r.segments,
                                 !.metadata = r.metadata]
                  ELSE Raise(f, r.msg)])
    /\ UNCHANGED <<background_tasks, task_results, task_errors, callerpc, call>>
    /\ UNCHANGED <<pageVars, notPage>>

\* correct_task with the save call moved in front of the test of the reply
CorrectTaskEngine_save_first(t) ==
    /\ Inside(t, "correct", "engine")
    /\ \E reply \in PageReplies :
          LET f == t.func
              r == correct_transcript(f.text, f.captured.provider,
                                      f.captured.model, f.captured.prompt,
                                      f.captured.api_key, reply)
              g == [f EXCEPT !.text_out = r.text, !.sent = r.sent,
                             !.metadata = Metadata(f.captured.provider,
                                                   f.captured.model,
                                                   f.captured.temperature,
                                                   f.captured.prompt)]
          IN  /\ lesson' = update_lesson(lesson,
                     [corrected_transcript |->
                          Column("dict", {"text"}, <<>>, g.text_out, FALSE),
                      correction_metadata |-> g.metadata])
              /\ threads' = Replace(t, [t EXCEPT !.func =
                     IF r.kind = "return" THEN [g EXCEPT !.at = "save"]
                     ELSE Raise(g, r.msg)])
    /\ written' = [written EXCEPT !["corrected_transcript"] = t.func.run,
                                  !["correction_metadata"] = t.func.run]
    /\ UNCHANGED <<background_tasks, task_results, task_errors, callerpc, call>>
    /\ UNCHANGED <<setup, audio, session_api_key, pagepc, request,
                   transcript_type, nruns>>
    /\ UNCHANGED notPage

\* correct_task, lines 516-522: the call of correct_transcript
CorrectTaskEngine(t) ==
    /\ Inside(t, "correct", "engine")
    /\ \E reply \in PageReplies :
          LET f == t.func
              r == correct_transcript(f.text, f.captured.provider,
                                      f.captured.model, f.captured.prompt,
                                      f.captured.api_key, reply)
          IN  threads' = Replace(t, [t EXCEPT !.func =
                  IF r.kind = "return"
                  THEN [f EXCEPT !.at = "save", !.text_out = r.text,
                                 !.sent = r.sent,
                                 !.metadata = Metadata(f.captured.provider,
                                                       f.captured.model,
                                                       f.captured.temperature,
                                                       f.captured.prompt)]
                  ELSE Raise([f EXCEPT !.sent = r.sent], r.msg)])
    /\ UNCHANGED <<background_tasks, task_results, task_errors, callerpc, call>>
    /\ UNCHANGED <<pageVars, notPage>>

\* summary_task, lines 684-692: the call of summarize_text
SummaryTaskEngine(t) ==
    /\ Inside(t, "summary", "engine")
    /\ \E reply \in PageReplies :
          LET f == t.func
              r == summarize_text(f.text, f.captured.provider, f.captured.model,
                                  f.captured.type, f.captured.max_length,
                                  f.captured.prompt, f.captured.api_key, reply)
          IN  threads' = Replace(t, [t EXCEPT !.func =
                  IF r.kind = "return"
                  THEN [f EXCEPT !.at = "save", !.text_out = r.text,
                                 !.sent = r.sent,
                                 !.metadata = Metadata(f.captured.provider,
                                                       f.captured.model,
                                                       f.captured.temperature,
                                                       f.captured.prompt)]
                  ELSE Raise([f EXCEPT !.sent = r.sent], r.msg)])
    /\ UNCHANGED <<background_tasks, task_results, task_errors, callerpc, call>>
    /\ UNCHANGED <<pageVars, notPage>>

\* the row after the save call of work function f: lines 369-374, 524-531,
\* 694-701
saved(row, f) ==
    CASE f.stage[1] = "transcribe" ->
            save_transcript(row, [type |-> "list", segments |-> f.segments,
                                  text |-> <<>>], f.metadata)
      [] f.stage[1] = "correct" ->
            save_corrected_transcript(row, f.text_out, f.captured.provider,
                                      f.captured.model, f.captured.temperature,
                                      f.captured.prompt)
      [] OTHER ->
            save_summary(row, f.text_out, f.captured.provider, f.captured.model,
                         f.captured.temperature, f.captured.prompt)

\* a work function that returns without its save call
TaskSave_unsaved(t) ==
    /\ \E stage \in Tabs : Inside(t, stage, "save")
    /\ threads' = Replace(t, [t EXCEPT !.func =
           [t.func EXCEPT !.kind = "return", !.at = "done",
                          !.val = IF t.func.stage[1] = "transcribe"
                                  THEN SegmentsVal(t.func.segments)
                                  ELSE Cat(t.func.text_out)]])
    /\ UNCHANGED <<background_tasks, task_results, task_errors, callerpc, call>>
    /\ UNCHANGED <<pageVars, notPage>>

\* the save call of a work function and its return statement
TaskSave(t) ==
    /\ \E stage \in Tabs : Inside(t, stage, "save")
    /\ lesson' = saved(lesson, t.func)
    /\ written' = [written EXCEPT ![Payload(t.func.stage)] = t.func.run,
                                  ![MetadataOf(t.func.stage)] = t.func.run]
    /\ threads' = Replace(t, [t EXCEPT !.func =
           [t.func EXCEPT !.kind = "return", !.at = "done",
                          !.val = IF t.func.stage[1] = "transcribe"
                                  THEN SegmentsVal(t.func.segments)
                                  ELSE Cat(t.func.text_out)]])
    /\ UNCHANGED <<background_tasks, task_results, task_errors, callerpc, call>>
    /\ UNCHANGED <<setup, audio, session_api_key, pagepc, request,
                   transcript_type, nruns>>
    /\ UNCHANGED notPage

(* --------------------------- specification ---------------------------- *)

\* a step of the script of the page, run_task and clear_task included
ScriptStep ==
    \/ \E tab \in Tabs : TabStop(tab)
    \/ \E tab \in Tabs : TabSkip(tab)
    \/ \E tab \in Tabs : PollRunning(tab)
    \/ \E tab \in Tabs : PollClear(tab)
    \/ \E tab \in Tabs : PollPass(tab)
    \/ \E tab \in Tabs : ButtonIdle(tab)
    \/ \E tab \in Tabs : ButtonRefuse(tab)
    \/ \E tab \in Tabs : ButtonSubmit(tab)
    \/ Rerun
    \/ RunTaskKnown
    \/ RunTaskNew
    \/ RunTaskMark
    \/ RunTaskResetResult
    \/ RunTaskResetError
    \/ RunTaskStart
    \/ ClearTaskFlag
    \/ ClearTaskResult
    \/ ClearTaskError

\* what the user does
UserStep ==
    \/ \E tab \in Tabs : Click(tab)
    \/ ChooseTranscriptType
    \/ Wake
    \/ SelectOtherLesson
    \/ SelectLessonAgain
    \/ EditSetup

\* the steps of the worker threads, each for some live thread
TranscribeTaskCalls == \E t \in Live : TranscribeTaskEngine(t)
CorrectTaskCalls == \E t \in Live : CorrectTaskEngine(t)
SummaryTaskCalls == \E t \in Live : SummaryTaskEngine(t)
TaskSaves == \E t \in Live : TaskSave(t)
TaskComesBack == \E t \in Live : WrapperCall(t)
TaskResultStored == \E t \in Live : WrapperResult(t)
TaskErrorStored == \E t \in Live : WrapperError(t)
TaskEnds == \E t \in Live : WrapperFinally(t)

\* a step of a worker thread
TaskStep ==
    \/ TranscribeTaskCalls
    \/ CorrectTaskCalls
    \/ SummaryTaskCalls
    \/ TaskSaves
    \/ TaskComesBack
    \/ TaskResultStored
    \/ TaskErrorStored
    \/ TaskEnds

PageNext ==
    \/ ScriptStep
    \/ UserStep
    \/ TaskStep

\* nothing but the page and its registry is in use
PageOnly == PureOff /\ SessionOff /\ WhisperOff

PageStart == PageInit /\ PageOnly

PageSpec == PageStart /\ [][PageNext]_allVars

(* ----------------------- properties of the page ----------------------- *)

\* the task id of the stage the user has asked for
RequestKey == task_id(SelectedLesson, request.stage)

\* what stage needs is missing: the audio file for Transcribe, the
\* transcript for Correct, the chosen source for Summarize
MissingInput(stage) ==
    CASE stage[1] = "transcribe" -> audio # "True"
      [] stage[1] = "correct" -> lesson.transcript = NoColumn
      [] stage[2] = "Original Transcript" -> lesson.transcript = NoColumn
      [] OTHER -> lesson.corrected_transcript = NoColumn

\* the threads of key k
ThreadsOf(k) == [t \in {x \in Live : x.key = k} |-> threads[t]]

\* C12: while a request for a stage whose input is missing (audio file for
\* Transcribe, transcript for Correct, chosen source for Summarize) is being
\* dealt with, no step creates a key for the stage, enters run_task for it
\* or starts a worker for it, whatever the registry holds.
C12_FastFailNoTask ==
    [][request.outcome = "pending" /\ request.stage[1] \in Tabs
            /\ MissingInput(request.stage)
         => /\ Record(RequestKey)' = Record(RequestKey)
            /\ ThreadsOf(RequestKey)' = ThreadsOf(RequestKey)
            /\ callerpc' \notin {"rt26", "rt31", "rt32", "rt33", "rt44"}]_allVars

\* a Summarize request whose source, the corrected transcript, is missing
\* has been dealt with while the registry holds the key of another task
C12_Witness ==
    /\ request.stage = <<"summary", "Corrected Transcript">>
    /\ request.outcome = "stopped"
    /\ lesson.corrected_transcript = NoColumn
    /\ \E k \in PageKeys : background_tasks[k] # Missing
    /\ background_tasks[RequestKey] = Missing

\* C13: a request for a stage that arrives while a run of the same stage,
\* lesson and source has not finished starts no second run of the engine.
C13_OneInvocation ==
    request.running => request.outcome # "started"

\* C14: a run that ends with an error has written neither the payload nor
\* the metadata of its stage: the columns hold what they held when the run
\* started (for Summarize: that, or what a run of the other source wrote).
C14_FailedRunWritesNothing ==
    \A t \in Live : t.func.kind = "raise" =>
        LET stage == t.func.stage
            now == <<written[Payload(stage)], written[MetadataOf(stage)]>>
        IN  /\ now[1] # t.func.run /\ now[2] # t.func.run
            /\ stage[1] # "summary" => now = t.func.before

\* run 2, a Correct run, has failed after run 1 had written the corrected
\* transcript, and the column is still the one of run 1
C14_Witness ==
    \E t \in Live :
        /\ t.func.stage[1] = "correct"
        /\ t.func.kind = "raise"
        /\ t.func.run = 2
        /\ written["corrected_transcript"] = 1
        /\ written["correction_metadata"] = 1

\* the payload work function f hands to its save call
PayloadOf(f) ==
    CASE f.stage[1] = "transcribe" ->
            transcript_dict([type |-> "list", segments |-> f.segments,
                             text |-> <<>>])
      [] f.stage[1] = "correct" -> Column("dict", {"text"}, <<>>, f.text_out, FALSE)
      [] OTHER -> f.text_out

\* C15: the payload and the metadata of a stage are always those of one
\* run, and while the run that wrote them last has not left its thread the
\* columns are exactly the payload and the metadata record of that run.
C15_PayloadAndMetadataTogether ==
    /\ \A tab \in Tabs :
          written[Payload(<<tab, "">>)] = written[MetadataOf(<<tab, "">>)]
    /\ \A t \in Live :
          t.func.kind = "return" /\ written[Payload(t.func.stage)] = t.func.run
             => /\ lesson[Payload(t.func.stage)] = PayloadOf(t.func)
                /\ lesson[MetadataOf(t.func.stage)] = t.func.metadata

\* run 2 has replaced the corrected transcript of run 1 under another
\* configuration
C15_Witness ==
    \E t \in Live :
        /\ t.func.stage[1] = "correct"
        /\ t.func.kind = "return"
        /\ t.func.run = 2
        /\ t.func.before = <<1, 1>>
        /\ t.func.submitted = SetupEdited
        /\ written["corrected_transcript"] = 2

\* C16: a Correct request for a lesson that has a transcript, made with an
\* API key configured and no Correct task Running, starts a Correct task,
\* whether or not the audio file exists and whether or not a Transcribe
\* task of the lesson is Running.
C16_CorrectNeedsTranscriptOnly ==
    request.stage[1] = "correct" /\ request.ready /\ ~request.running
        /\ request.outcome \notin {"pending", "handed"}
    => request.outcome = "started"

\* the task ids of different stages, sources and lessons differ
DistinctKeys ==
    \A l1, l2 \in LessonIds : \A s1, s2 \in Stages :
        <<l1, s1>> # <<l2, s2>> => task_id(l1, s1) # task_id(l2, s2)

\* C17: the task ids of Transcribe, Correct, Summarize from the transcript
\* and Summarize from the corrected transcript of a lesson are pairwise
\* distinct and differ from those of every other lesson, the registry holds
\* one entry for each of them, and run_task returns without starting work
\* only if the key of the very stage that was asked for is in the registry.
C17_IndependentKeys ==
    /\ DistinctKeys
    /\ Cardinality(PageKeys) = Cardinality(Stages)
    /\ pagepc = "rerun" /\ callerpc = "ret" /\ call.seen # Missing
          => call.key = RequestKey /\ background_tasks[RequestKey] # Missing

\* Summarize from the transcript and Summarize from the corrected
\* transcript are Running at the same time
C17_Witness ==
    /\ is_running(summary_task_id(SelectedLesson, "Original Transcript"))
    /\ is_running(summary_task_id(SelectedLesson, "Corrected Transcript"))
    /\ \E t1, t2 \in Live : t1.key # t2.key /\ t1.func.stage[1] = "summary"
                              /\ t2.func.stage[1] = "summary"

\* Correct and Summarize are Running at the same time
C17_WitnessCorrectAndSummarize ==
    /\ is_running(correct_task_id(SelectedLesson))
    /\ \E type \in TranscriptTypes :
          is_running(summary_task_id(SelectedLesson, type))
    /\ \E t1, t2 \in Live : t1.func.stage[1] = "correct"
                              /\ t2.func.stage[1] = "summary"

\* a temperature of setup.yaml in tenths
Tenths(temperature) ==
    CASE temperature = "0.2" -> 2
      [] temperature = "0.3" -> 3
      [] temperature = "0.5" -> 5
      [] OTHER -> 7

\* the metadata of a run of work function f if every parameter is the value
\* setup.yaml had when the run was submitted
SubmittedMetadata(f) ==
    CASE f.stage[1] = "transcribe" ->
            LET model == get_whisper_model(f.submitted)
                c == transcribe_captured(f.submitted)
            IN  TranscriptMetadata(model.model_size, model.device,
                                   model.compute_type, c.beam_size,
                                   c.vad_filter, c.language, c.initial_prompt)
      [] f.stage[1] = "correct" ->
            LET c == correct_captured(f.submitted)
            IN  Metadata(c.provider, c.model, c.temperature, c.prompt)
      [] OTHER ->
            LET c == summary_captured(f.submitted)
            IN  Metadata(c.provider, c.model, c.temperature, c.prompt)

\* C18: every parameter a run uses in its engine call and records in its
\* metadata is the value setup.yaml had when the run was submitted.
C18_ParametersOfSubmission ==
    \A t \in Live :
        LET f == t.func
        IN  f.at \in {"save", "done"} /\ f.kind # "raise" =>
              /\ f.metadata = SubmittedMetadata(f)
              /\ f.stage[1] # "transcribe" =>
                    /\ f.sent.model = SubmittedMetadata(f).model
                    /\ f.sent.temperature = Tenths(SubmittedMetadata(f).temperature)
                    /\ SubSeq(f.sent.user, 1, Len(SubmittedMetadata(f).prompt))
                          = SubmittedMetadata(f).prompt
              /\ f.kind = "return" /\ written[MetadataOf(f.stage)] = f.run
                    => lesson[MetadataOf(f.stage)] = SubmittedMetadata(f)

\* C22: whenever the script reaches the poll of a tab and finds the task of
\* the tab terminal, whatever result or error the task left (an empty
\* segment list, an empty text and an empty message included), the script
\* calls clear_task on its key, so that the button can start a new run.
C22_TerminalIsCleared ==
    [][\A tab \in Tabs :
          (AtTab(tab) /\ TabOpen(tab) /\ is_complete(TabKey(tab))
             /\ pagepc' # pagepc)
          => (callerpc' = "ct67" /\ call'.key = TabKey(tab))]_allVars

\* C24 (frame): the save call of a stage changes the payload column and the
\* metadata column of that stage only: save_transcript leaves the corrected
\* transcript, the summary and their metadata as they were,
\* save_corrected_transcript the transcript and the summary columns, and
\* save_summary the transcript and the correction columns.
C24_SaveChangesOwnColumns ==
    [][\A t \in Live : TaskSave(t) =>
          \A c \in Columns \ {Payload(t.func.stage), MetadataOf(t.func.stage)} :
              lesson'[c] = lesson[c]]_allVars

\* a Transcribe run and a Summarize run have both saved on a lesson whose
\* corrected transcript, written before the session, is still in its column
C24_Witness ==
    /\ written["transcript"] # 0
    /\ written["summary"] # 0
    /\ written["corrected_transcript"] = 0
    /\ lesson.transcript # NoColumn
    /\ lesson.summary # NoneText
    /\ lesson.corrected_transcript = Column("dict", {"text"}, <<>>, <<"Hi.">>, FALSE)
    /\ lesson.correction_metadata = NullMetadata

\* the message of the exception an adapter raises for a provider it has no
\* client for
ProviderMessage(provider) ==
    IF provider = "local"
    THEN "Local provider not yet implemented. Please use OpenAI or Anthropic."
    ELSE "Unknown provider: " \o provider

\* a Correct or Summarize run whose provider is the local one or an unknown
\* one fails inside its work function: the adapter raises, nothing is sent
\* to an endpoint, and task_wrapper stores the message of the exception as a
\* string under the key of the run, with no result
SurfacedByErrorState ==
    \A t \in Live :
        (t.func.stage[1] # "transcribe"
           /\ t.func.captured.provider \in {"local", "mistral"}) =>
            /\ t.func.at # "save"
            /\ t.func.kind # "return"
            /\ t.func.at = "done" =>
                  /\ t.func.kind = "raise"
                  /\ t.func.args = <<ProviderMessage(t.func.captured.provider)>>
                  /\ t.func.sent = NoRequest
            /\ t.pc = "finally" =>
                  /\ task_errors[t.key] = ProviderMessage(t.func.captured.provider)
                  /\ get_result(t.key) = None

\* C25 as stated: a Correct or Summarize request with no API key, with an
\* unknown provider or with the local provider is never rejected by the
\* button; it starts a task that fails inside its work function and shows
\* the failure as the string in the error state of the task.
C25_FailuresInsideTask ==
    /\ request.outcome # "no_api_key"
    /\ SurfacedByErrorState

\* C25 amended: a Correct or Summarize request with an API key and with an
\* unknown provider or the local provider is not rejected by the button, and
\* the task it starts fails inside its work function and shows the failure
\* as the string in the error state of the task; a request with no API key
\* is rejected by the button (lines 498-499, 664-665) and starts no task.
C25_FailuresInsideTaskWithKey ==
    /\ request.outcome = "no_api_key" =>
          request.stage[1] \in {"correct", "summary"} /\ ~TruthyStr(session_api_key)
    /\ \A t \in Live : t.func.stage[1] # "transcribe" =>
          TruthyStr(t.func.captured.api_key)
    /\ SurfacedByErrorState

\* a Summarize task with an unknown provider has ended, and the poll can
\* read the message of its exception in the error state of the key
C25_Witness ==
    \E type \in TranscriptTypes :
        LET k == summary_task_id(SelectedLesson, type)
        IN  /\ is_complete(k)
            /\ get_error(k) = ProviderMessage("mistral")
            /\ get_result(k) = None
            /\ TruthyStr(session_api_key)

\* a Correct task with the local provider has raised inside its work function
C25_WitnessLocal ==
    \E t \in Live :
        /\ t.func.stage[1] = "correct"
        /\ t.func.captured.provider = "local"
        /\ t.pc = "finally"

\* text p is the beginning of text t
StartsWith(t, p) == Len(p) <= Len(t) /\ SubSeq(t, 1, Len(p)) = p

\* C26: for every successful Correct or Summarize run, the provider, the
\* model, the temperature and the prompt of the metadata the run has stored
\* in the lesson are the values its adapter used: the provider of the
\* branch taken, and the model, temperature and prompt of the request sent.
C26_MetadataIsWhatWasSent ==
    \A t \in Live :
        LET f == t.func
            md == lesson[MetadataOf(f.stage)]
        IN  (f.stage[1] # "transcribe" /\ f.kind = "return"
               /\ written[MetadataOf(f.stage)] = f.run) =>
              /\ md.provider = "openai"
              /\ md.model = f.sent.model
              /\ Tenths(md.temperature) = f.sent.temperature
              /\ StartsWith(f.sent.user, md.prompt)

\* the instruction of the summary type combined with the target length:
\* llm_summarizer.py, lines 43-44
CannedPrompt(summary_type, max_length) ==
    <<type_instructions(summary_type),
      " of the following text in approximately ",
      ToString(max_length),
      " words. Return only the summary without additional commentary.">>

\* C27: when setup.yaml holds no summary prompt, the prompt a Summarize run
\* sends is the instruction of the configured summary type combined with
\* the configured target length; type and length are left out only when a
\* prompt is configured.
C27_CannedPromptUnlessCustom ==
    \A t \in Live :
        LET f == t.func
        IN  (f.stage[1] = "summary" /\ f.sent # NoRequest
               /\ f.submitted.summary.prompt = NoneText) =>
              StartsWith(f.sent.user,
                         CannedPrompt(Get(f.submitted.summary.type, "concise"),
                                      GetInt(f.submitted.summary.max_length, 300)))

\* the store holds what the run of work function f saved: the payload and
\* the metadata of the run, or, in the one column two stages share, what a
\* Summarize run of the other source has put there since
Persisted(f) ==
    LET p == Payload(f.stage)
        m == MetadataOf(f.stage)
    IN  \/ /\ written[p] = f.run /\ written[m] = f.run
           /\ lesson[p] = PayloadOf(f) /\ lesson[m] = f.metadata
        \/ /\ f.stage[1] = "summary"
           /\ written[p] \notin {0, f.run, f.before[1]}
           /\ written[m] = written[p]

BothSummarized(t1, t2) ==
    /\ t1.key = summary_task_id(SelectedLesson, "Original Transcript")
    /\ t2.key = summary_task_id(SelectedLesson, "Corrected Transcript")
    /\ t1.func.kind = "return"
    /\ t2.func.kind = "return"

\* C29: the summary column and the summary metadata column are always those
\* of one run; when Summarize from the transcript and Summarize from the
\* corrected transcript have run at the same time and have both saved, the
\* two columns hold the text and the metadata of one of the two runs, the
\* one that saved last, never the text of one and the metadata of the other.
C29_SummaryOfOneRun ==
    /\ written["summary"] = written["summary_metadata"]
    /\ \A t1, t2 \in Live : BothSummarized(t1, t2) =>
          \E t \in {t1, t2} :
              /\ written["summary"] = t.func.run
              /\ lesson.summary = t.func.text_out
              /\ lesson.summary_metadata = t.func.metadata

\* both Summarize runs have saved, under different settings, and the run
\* that was submitted first has saved last
C29_Witness ==
    \E t1, t2 \in Live :
        /\ BothSummarized(t1, t2)
        /\ t1.func.metadata # t2.func.metadata
        /\ \E t \in {t1, t2} : t.func.run = 1 /\ written["summary"] = 1

(***************************************************************************)
(* The speech model cache (src/utils/whisper_transcriber.py): the work     *)
(* function of every Transcribe task calls transcribe_audio on its own     *)
(* thread; get_whisper_model reads setup.yaml and keeps the model in the   *)
(* module globals _model and _model_config, which no lock protects.        *)
(***************************************************************************)

\* the largest number of calls of transcribe_audio
MaxTranscriptions == 2

\* the largest number of times the Setup page writes setup.yaml
MaxEdits == 1

\* lines 27-32: current_config, as setup.yaml gives it
current_config(config) ==
    LET m == get_whisper_model(config)
    IN  <<m.model_size, m.device, m.compute_type>>

\* a thread of transcribe_audio: its position, the local current_config, the
\* model object and the parameters get_whisper_model returned to it, and
\* the model object whose transcribe method it called
Transcriber(pc, config, model, metadata, used) ==
    [pc |-> pc, current_config |-> config, model |-> model,
     metadata |-> metadata, used |-> used]

NotTranscribing == Transcriber("idle", NoModel, NoModel, NoModel, NoModel)

At(l, pc) == transcribing[l].pc = pc

Goto(l, pc) == [transcribing EXCEPT ![l].pc = pc]

WhisperInit ==
    /\ config_file = SetupEmpty
    /\ _model = NoModel
    /\ _model_config = NoModel
    /\ transcribing = [l \in LessonIds |-> NotTranscribing]
    /\ ncalls = 0
    /\ nedits = 0

\* the work function of the Transcribe task of lesson l calls
\* transcribe_audio, which calls get_whisper_model: line 64
CallTranscribeAudio(l) ==
    /\ transcribing[l].pc \in {"idle", "done"}
    /\ ncalls < MaxTranscriptions
    /\ ncalls' = ncalls + 1
    /\ transcribing' = [transcribing EXCEPT ![l] =
                            [NotTranscribing EXCEPT !.pc = "l20"]]
    /\ UNCHANGED <<config_file, _model, _model_config, nedits>>
    /\ UNCHANGED notWhisper

\* lines 20-32: setup.yaml is read and current_config is built
ReadConfigFile(l) ==
    /\ At(l, "l20")
    /\ transcribing' = [transcribing EXCEPT
                            ![l].current_config = current_config(config_file),
                            ![l].pc = "l35"]
    /\ UNCHANGED <<config_file, _model, _model_config, ncalls, nedits>>
    /\ UNCHANGED notWhisper

\* line 35, left operand: _model is None
TestModelIsNone(l) ==
    /\ At(l, "l35")
    /\ transcribing' = Goto(l, IF _model = NoModel THEN "l41" ELSE "l35b")
    /\ UNCHANGED <<config_file, _model, _model_config, ncalls, nedits>>
    /\ UNCHANGED notWhisper

\* line 35, right operand: _model_config != current_config
TestModelConfig(l) ==
    /\ At(l, "l35b")
    /\ transcribing' = Goto(l, IF _model_config # transcribing[l].current_config
                                THEN "l41" ELSE "l45")
    /\ UNCHANGED <<config_file, _model, _model_config, ncalls, nedits>>
    /\ UNCHANGED notWhisper

\* line 41: the model is constructed and assigned to _model
LoadModel(l) ==
    /\ At(l, "l41")
    /\ _model' = transcribing[l].current_config
    /\ transcribing' = Goto(l, "l42")
    /\ UNCHANGED <<config_file, _model_config, ncalls, nedits>>
    /\ UNCHANGED notWhisper

\* line 42
StoreModelConfig(l) ==
    /\ At(l, "l42")
    /\ _model_config' = transcribing[l].current_config
    /\ transcribing' = Goto(l, "l45")
    /\ UNCHANGED <<config_file, _model, ncalls, nedits>>
    /\ UNCHANGED notWhisper

\* line 45: return _model, model_size, device, compute_type
ReturnModel(l) ==
    /\ At(l, "l45")
    /\ transcribing' = [transcribing EXCEPT
                            ![l].model = _model,
                            ![l].metadata = transcribing[l].current_config,
                            ![l].pc = "l70"]
    /\ UNCHANGED <<config_file, _model, _model_config, ncalls, nedits>>
    /\ UNCHANGED notWhisper

\* lines 70-104: model.transcribe, then the metadata with the parameters
\* get_whisper_model returned
ModelTranscribe(l) ==
    /\ At(l, "l70")
    /\ transcribing' = [transcribing EXCEPT
                            ![l].used = transcribing[l].model,
                            ![l].pc = "done"]
    /\ UNCHANGED <<config_file, _model, _model_config, ncalls, nedits>>
    /\ UNCHANGED notWhisper

\* the Setup page writes setup.yaml with other settings of the model
EditWhisperSetup ==
    /\ nedits < MaxEdits
    /\ nedits' = nedits + 1
    /\ config_file' = IF config_file = SetupEmpty THEN SetupEdited ELSE SetupEmpty
    /\ UNCHANGED <<_model, _model_config, transcribing, ncalls>>
    /\ UNCHANGED notWhisper

WhisperNext ==
    \/ \E l \in LessonIds : CallTranscribeAudio(l)
    \/ \E l \in LessonIds : ReadConfigFile(l)
    \/ \E l \in LessonIds : TestModelIsNone(l)
    \/ \E l \in LessonIds : TestModelConfig(l)
    \/ \E l \in LessonIds : LoadModel(l)
    \/ \E l \in LessonIds : StoreModelConfig(l)
    \/ \E l \in LessonIds : ReturnModel(l)
    \/ \E l \in LessonIds : ModelTranscribe(l)
    \/ EditWhisperSetup

\* nothing but the speech model is in use
WhisperOnly == RegistryOff /\ PureOff /\ SessionOff /\ PageOff

WhisperStart == WhisperInit /\ WhisperOnly

WhisperSpec == WhisperStart /\ [][WhisperNext]_allVars

\* C30 (cache consistency): whenever no thread is between the two
\* assignments of lines 41 and 42, the cached tuple _model_config is the
\* configuration of the model object in _model; and the model size, device
\* and compute type get_whisper_model returned to a call, which go into its
\* metadata, are those of the model object the call transcribes with.
C30_CacheConsistent ==
    /\ (\A l \in LessonIds : ~At(l, "l42")) =>
          (_model # NoModel => _model_config = _model)
    /\ \A l \in LessonIds :
          transcribing[l].pc \in {"l70", "done"} =>
              transcribing[l].metadata = transcribing[l].model

====
